---- MODULE Spec2Model ----
(***************************************************************************)
(* bitcoinlib/transactions.py: the raw-transaction codec                   *)
(* (deserialize_transaction, Transaction.raw) and the signature verifier   *)
(* (Transaction.verify), as a state machine over byte sequences.           *)
(* A byte is a number in 0..255; bytes objects are sequences of bytes.     *)
(***************************************************************************)
EXTENDS Integers, Sequences, FiniteSets, TLC

VARIABLES
    rawtx,      \* the buffer handed to Transaction.import_raw
    tx,         \* the Transaction object at hand (NoTx before one exists)
    orig,       \* the Transaction as first constructed (NoTx for a wire buffer)
    pc,         \* where control is
    err,        \* the exception raised, NoErr if none
    version, n_inputs, cursor, i, inputs,     \* locals of deserialize_transaction
    n_outputs, o, outputs, locktime,
    short,      \* names of the reads of rawtx that got fewer bytes than asked for
    out,        \* what Transaction.raw returned: [ok, bytes, err]
    sign_id,    \* the sign_id raw was called with: <<>> is None, <<k>> is k
    vi, result, log   \* Transaction.verify: loop position, return value, work done

decodeLocals == <<version, n_inputs, cursor, i, inputs, n_outputs, o, outputs, locktime, short>>
verifyVars == <<vi, result, log>>
vars == <<rawtx, tx, orig, pc, err, decodeLocals, out, sign_id, verifyVars>>

(* ------------------------------ bounds -------------------------------- *)

\* Longest input list of a constructed Transaction and of a wire buffer.
MaxInputs == 2

(* ------------------------------ bytes --------------------------------- *)

\* The largest number the model holds; Python's integers are unbounded.
IntCap == 2^30 - 1

Min(a, b) == IF a < b THEN a ELSE b

\* s[a:b] of Python, 0 <= a <= b: clipped to the sequence, never an error.
Slice(s, a, b) == SubSeq(s, a + 1, Min(b, Len(s)))

\* s[::-1]
Rev(s) == [k \in 1..Len(s) |-> s[Len(s) + 1 - k]]

\* n copies of byte b
Rep(b, n) == [k \in 1..n |-> b]

RECURSIVE LittleEndian(_, _)
\* struct.pack('<Q', n) for w = 8, struct.pack('<L', n) for w = 4
LittleEndian(n, w) == IF w = 0 THEN <<>> ELSE <<n % 256>> \o LittleEndian(n \div 256, w - 1)

RECURSIVE change_base(_)
\* change_base(b, 256, 10): the number whose base-256 digits, most significant
\* first, are b. Any length is taken, the empty one gives 0.
change_base(b) ==
    IF b = <<>> THEN 0
    ELSE LET hi == change_base(SubSeq(b, 1, Len(b) - 1))
             lo == b[Len(b)]
         IN  IF hi > (IntCap - lo) \div 256 THEN IntCap ELSE hi * 256 + lo

NoErr == [type |-> "none", at |-> "none"]
Raise(type, at) == [type |-> type, at |-> at]

\* varbyteint_to_int(b): [ok, value, size]; fails when the bytes its first
\* byte announces are not all there.
varbyteint_to_int(b) ==
    IF b = <<>> THEN [ok |-> FALSE, value |-> 0, size |-> 0]
    ELSE LET ni == b[1]
             w  == IF ni < 253 THEN 0 ELSE IF ni = 253 THEN 2 ELSE IF ni = 254 THEN 4 ELSE 8
         IN  IF ni < 253 THEN [ok |-> TRUE, value |-> ni, size |-> 1]
             ELSE IF Len(b) < 1 + w THEN [ok |-> FALSE, value |-> 0, size |-> 0]
             ELSE [ok |-> TRUE, value |-> change_base(Rev(Slice(b, 1, 1 + w))), size |-> w + 1]

\* int_to_varbyteint(n): the narrowest encoding of n
int_to_varbyteint(n) ==
    IF n < 253 THEN <<n>>
    ELSE IF n < 65536 THEN <<253>> \o LittleEndian(n, 2)
    ELSE <<254>> \o LittleEndian(n, 4)

(* --------------------------- the objects ------------------------------ *)

NoTx == [none |-> TRUE]

\* Input.__init__
Input(prev_hash, output_index, script_sig, sequence, id) ==
    [id |-> id, prev_hash |-> prev_hash, output_index |-> output_index,
     script_sig |-> script_sig, sequence |-> sequence]

\* Transaction.__init__
Transaction(ins, outs, lt, ver) ==
    [inputs |-> ins, outputs |-> outs, version |-> ver, locktime |-> lt]

(* ------------------ keys, signatures (collaborators) ------------------ *)

\* Key(public_key): a public key is 33 bytes (compressed, leading 2 or 3) or
\* 65 bytes (uncompressed, leading 4); anything else is refused.
KeyOk(pk) ==
    \/ Len(pk) = 33 /\ pk[1] \in {2, 3}
    \/ Len(pk) = 65 /\ pk[1] = 4

\* Key.public_uncompressed: leading 4, then the two coordinates. The second
\* coordinate stands for the one the curve equation gives.
public_uncompressed(pk) ==
    IF Len(pk) = 33 THEN <<4>> \o SubSeq(pk, 2, 33) \o [k \in 1..32 |-> (pk[k + 1] + pk[1]) % 256]
    ELSE pk

\* Key.hash160: 20 bytes standing for the hash of the key.
hash160(pk) == [k \in 1..20 |-> (pk[2] + k) % 256]

\* convert_der_sig(sig): a DER signature opens with the SEQUENCE tag 0x30;
\* the empty signature converts to the empty string, anything else is refused.
DerOk(sig) == sig = <<>> \/ sig[1] = 48

(* ------------------------- parse_script_sig --------------------------- *)

\* parse_script_sig(s): [ok, sig, public_key, err]. s[0] and s[l+1] are index
\* reads (IndexError past the end), s[1:l] and s[l+2:l+l2+2] are slices.
parse_script_sig(s) ==
    IF Len(s) = 0 THEN [ok |-> FALSE, sig |-> <<>>, public_key |-> <<>>, err |-> Raise("IndexError", "parse_script_sig")]
    ELSE LET l == s[1]
             sig == Slice(s, 1, l)
         IN  IF ~DerOk(sig) THEN [ok |-> FALSE, sig |-> <<>>, public_key |-> <<>>, err |-> Raise("EncodingError", "parse_script_sig")]
             ELSE IF l + 1 >= Len(s) THEN [ok |-> FALSE, sig |-> <<>>, public_key |-> <<>>, err |-> Raise("IndexError", "parse_script_sig")]
             ELSE LET l2 == s[l + 2]
                  IN  [ok |-> TRUE, sig |-> sig, public_key |-> Slice(s, l + 2, l + l2 + 2), err |-> NoErr]

(* -------------------- Transaction.input_addresses --------------------- *)

\* One pass of the loop of input_addresses: the hash160 of the key in s.
InputAddress(s) ==
    IF Len(s) = 0 THEN [ok |-> FALSE, value |-> <<>>, err |-> Raise("IndexError", "input_addresses")]
    ELSE LET l == s[1]
         IN  IF l + 1 >= Len(s) THEN [ok |-> FALSE, value |-> <<>>, err |-> Raise("IndexError", "input_addresses")]
             ELSE LET l2 == s[l + 2]
                      public_key == Slice(s, l + 2, l + l2 + 2)
                  IN  IF ~KeyOk(public_key) THEN [ok |-> FALSE, value |-> <<>>, err |-> Raise("KeyError", "input_addresses")]
                      ELSE [ok |-> TRUE, value |-> hash160(public_key), err |-> NoErr]

\* input_addresses(id): every input's script_sig is parsed, in order, into the
\* list r; then r[id], the entry at POSITION id, is returned.
input_addresses(t, id) ==
    LET r == [k \in 1..Len(t.inputs) |-> InputAddress(t.inputs[k].script_sig)]
        bad == {k \in 1..Len(t.inputs) : ~r[k].ok}
    IN  IF bad # {} THEN r[CHOOSE k \in bad : \A m \in bad : k <= m]
        ELSE IF id >= Len(t.inputs) THEN [ok |-> FALSE, value |-> <<>>, err |-> Raise("IndexError", "input_addresses")]
        ELSE r[id + 1]

(* -------------------------- Transaction.raw --------------------------- *)

\* struct.pack('B', n): one byte, struct.error when n does not fit in it.
pack_B(n) ==
    IF n > 255 THEN [ok |-> FALSE, bytes |-> <<>>, err |-> Raise("struct.error", "raw")]
    ELSE [ok |-> TRUE, bytes |-> <<n>>, err |-> NoErr]

\* The script field raw() writes for input inp.
RawScript(t, inp, sid) ==
    IF sid = <<>> THEN
        LET n == pack_B(Len(inp.script_sig))
        IN  IF n.ok THEN [ok |-> TRUE, bytes |-> n.bytes \o inp.script_sig, err |-> NoErr] ELSE n
    ELSE IF sid[1] = inp.id THEN
        LET a == input_addresses(t, inp.id)
        IN  IF a.ok THEN [ok |-> TRUE, bytes |-> <<25, 118, 169, 20>> \o a.value \o <<136, 172>>, err |-> NoErr]
            ELSE [ok |-> FALSE, bytes |-> <<>>, err |-> a.err]
    ELSE [ok |-> TRUE, bytes |-> <<0>>, err |-> NoErr]

\* The bytes raw() appends for one input.
RawInput(t, inp, sid) ==
    LET s == RawScript(t, inp, sid)
    IN  IF s.ok THEN [ok |-> TRUE, bytes |-> Rev(inp.prev_hash) \o Rev(inp.output_index) \o s.bytes \o inp.sequence, err |-> NoErr]
        ELSE s

\* The bytes raw() appends for one output.
RawOutput(outp) ==
    LET n == pack_B(Len(outp.script))
    IN  IF n.ok THEN [ok |-> TRUE, bytes |-> LittleEndian(outp.amount, 8) \o n.bytes \o outp.script, err |-> NoErr]
        ELSE n

RECURSIVE Join(_)
\* The parts' bytes one after another; the first part that raised, if any did.
Join(parts) ==
    IF parts = <<>> THEN [ok |-> TRUE, bytes |-> <<>>, err |-> NoErr]
    ELSE IF ~parts[1].ok THEN parts[1]
    ELSE LET rest == Join(Tail(parts))
         IN  IF rest.ok THEN [ok |-> TRUE, bytes |-> parts[1].bytes \o rest.bytes, err |-> NoErr] ELSE rest

\* Transaction.raw(sign_id): [ok, bytes, err]
raw(t, sid) ==
    Join(<<[ok |-> TRUE, bytes |-> Rev(t.version) \o int_to_varbyteint(Len(t.inputs)), err |-> NoErr]>>
         \o [k \in 1..Len(t.inputs) |-> RawInput(t, t.inputs[k], sid)]
         \o <<[ok |-> TRUE, bytes |-> int_to_varbyteint(Len(t.outputs)), err |-> NoErr]>>
         \o [k \in 1..Len(t.outputs) |-> RawOutput(t.outputs[k])]
         \o <<[ok |-> TRUE, bytes |-> LittleEndian(t.locktime, 4)
                                      \o (IF sid = <<>> THEN <<>> ELSE <<1, 0, 0, 0>>), err |-> NoErr]>>)

(* ---------------------- deserialize_transaction ----------------------- *)

decodeIdle == 
    /\ version = <<>> /\ n_inputs = 0 /\ cursor = 0 /\ i = 0 /\ inputs = <<>>
    /\ n_outputs = 0 /\ o = 0 /\ outputs = <<>> /\ locktime = 0 /\ short = {}

\* The names of the reads that came up short: a read of n bytes at cursor c
\* is short when rawtx ends before c + n.
Short(name, c, n) == IF c + n > Len(rawtx) THEN {name} ELSE {}

\* Line 53: "if not len(inp_hash)".
HashMissing(inp_hash) == Len(inp_hash) = 0

\* The cursor left where it was.
AfterOutpointStays(c) == c

\* Line 56: "cursor += 36", past the hash and the output index.
AfterOutpoint(c) == c + 36

\* The cursor left before the script_sig.
AfterScriptSigStays(c, scriptsig_size) == c

\* Line 61: "cursor += scriptsig_size".
AfterScriptSig(c, scriptsig_size) == c + scriptsig_size

\* The list replaced by the new Input instead of grown by it.
AppendInputOverwrites(ins, inp) == <<inp>>

\* Line 64: "inputs.append(Input(...))".
AppendInput(ins, inp) == Append(ins, inp)

\* An empty input list refused like an empty output list is.
CountMismatchOrNone(ins, n) == Len(ins) # n \/ n = 0

\* Line 65: "if len(inputs) != n_inputs".
CountMismatch(ins, n) == Len(ins) # n

\* The check for an empty output list left out.
NoOutputsNever(outs) == FALSE

\* Line 79: "if not outputs".
NoOutputs(outs) == outs = <<>>

\* Transaction.import_raw is entered with a bytes buffer; lines 47-50 of
\* deserialize_transaction read the version and the input count.
deserialize_header ==
    /\ pc = "import_raw"
    /\ LET v == varbyteint_to_int(Slice(rawtx, 4, 13))
       IN  /\ version' = Rev(Slice(rawtx, 0, 4))
           /\ short' = short \cup Short("version", 0, 4)
           /\ IF v.ok
              THEN /\ n_inputs' = v.value
                   /\ cursor' = 4 + v.size
                   /\ pc' = "inputs"
                   /\ err' = err
              ELSE /\ pc' = "raised"
                   /\ err' = Raise("FormatError", "n_inputs")
                   /\ UNCHANGED <<n_inputs, cursor>>
    /\ UNCHANGED <<rawtx, tx, orig, i, inputs, n_outputs, o, outputs, locktime, out, sign_id, verifyVars>>

\* One pass of the loop over range(0, n_inputs), lines 51-64.
deserialize_input ==
    /\ pc = "inputs"
    /\ i < n_inputs
    /\ LET inp_hash  == Rev(Slice(rawtx, cursor, cursor + 32))
           inp_index == Rev(Slice(rawtx, cursor + 32, cursor + 36))
           c1        == AfterOutpoint(cursor)
           v         == varbyteint_to_int(Slice(rawtx, c1, c1 + 9))
           c2        == c1 + v.size
           scriptsig == Slice(rawtx, c2, c2 + v.value)
           c3        == AfterScriptSig(c2, v.value)
           sequence_number == Slice(rawtx, c3, c3 + 4)
       IN  IF HashMissing(inp_hash)
           THEN /\ pc' = "raised"
                /\ err' = Raise("TransactionError", "inp_hash")
                /\ short' = short \cup Short("inp_hash", cursor, 32)
                /\ UNCHANGED <<cursor, i, inputs>>
           ELSE IF ~v.ok
           THEN /\ pc' = "raised"
                /\ err' = Raise("FormatError", "scriptsig_size")
                /\ cursor' = c1
                /\ short' = short \cup Short("inp_hash", cursor, 32) \cup Short("inp_index", cursor + 32, 4)
                /\ UNCHANGED <<i, inputs>>
           ELSE /\ inputs' = AppendInput(inputs, Input(inp_hash, inp_index, scriptsig, sequence_number, i))
                /\ cursor' = c3 + 4
                /\ i' = i + 1
                /\ short' = short \cup Short("inp_hash", cursor, 32) \cup Short("inp_index", cursor + 32, 4)
                                  \cup Short("scriptsig", c2, v.value) \cup Short("sequence", c3, 4)
                /\ UNCHANGED <<pc, err>>
    /\ UNCHANGED <<rawtx, tx, orig, version, n_inputs, n_outputs, o, outputs, locktime, out, sign_id, verifyVars>>

\* The loop is over; lines 65-70: the count check, then the output count.
deserialize_n_outputs ==
    /\ pc = "inputs"
    /\ i >= n_inputs
    /\ LET v == varbyteint_to_int(Slice(rawtx, cursor, cursor + 9))
       IN  IF CountMismatch(inputs, n_inputs)
           THEN /\ pc' = "raised"
                /\ err' = Raise("TransactionError", "count")
                /\ UNCHANGED <<n_outputs, cursor>>
           ELSE IF ~v.ok
           THEN /\ pc' = "raised"
                /\ err' = Raise("FormatError", "n_outputs")
                /\ UNCHANGED <<n_outputs, cursor>>
           ELSE /\ n_outputs' = v.value
                /\ cursor' = cursor + v.size
                /\ pc' = "outputs"
                /\ err' = err
    /\ UNCHANGED <<rawtx, tx, orig, version, n_inputs, i, inputs, o, outputs, locktime, short, out, sign_id, verifyVars>>

\* One pass of the loop over range(0, n_outputs), lines 71-78.
deserialize_output ==
    /\ pc = "outputs"
    /\ o < n_outputs
    /\ LET amount == change_base(Rev(Slice(rawtx, cursor, cursor + 8)))
           c1     == cursor + 8
           v      == varbyteint_to_int(Slice(rawtx, c1, c1 + 9))
           c2     == c1 + v.size
           script == Slice(rawtx, c2, c2 + v.value)
       IN  IF ~v.ok
           THEN /\ pc' = "raised"
                /\ err' = Raise("FormatError", "script_size")
                /\ cursor' = c1
                /\ short' = short \cup Short("amount", cursor, 8)
                /\ UNCHANGED <<o, outputs>>
           ELSE /\ outputs' = Append(outputs, [amount |-> amount, script |-> script])
                /\ cursor' = c2 + v.value
                /\ o' = o + 1
                /\ short' = short \cup Short("amount", cursor, 8) \cup Short("script", c2, v.value)
                /\ UNCHANGED <<pc, err>>
    /\ UNCHANGED <<rawtx, tx, orig, version, n_inputs, i, inputs, n_outputs, locktime, out, sign_id, verifyVars>>

\* Lines 79-83 and import_raw's line 126: no outputs is an error; else the
\* locktime is read and the Transaction is built from what was parsed.
deserialize_return ==
    /\ pc = "outputs"
    /\ o >= n_outputs
    /\ IF NoOutputs(outputs)
       THEN /\ pc' = "raised"
            /\ err' = Raise("TransactionError", "outputs")
            /\ UNCHANGED <<locktime, short, tx>>
       ELSE LET lt == change_base(Rev(Slice(rawtx, cursor, cursor + 4)))
            IN  /\ locktime' = lt
                /\ short' = short \cup Short("locktime", cursor, 4)
                /\ tx' = Transaction(inputs, outputs, lt, version)
                /\ pc' = "imported"
                /\ err' = err
    /\ UNCHANGED <<rawtx, orig, version, n_inputs, cursor, i, inputs, n_outputs, o, outputs, out, sign_id, verifyVars>>

(* ---------------------- Transaction.raw, called ------------------------ *)

\* t.raw() or t.raw(k), k the id of one of t's inputs, on a Transaction that
\* was constructed directly.
raw_call ==
    /\ pc = "new"
    /\ \E sid \in {<<>>} \cup {<<tx.inputs[k].id>> : k \in 1..Len(tx.inputs)} :
          LET r == raw(tx, sid)
          IN  /\ sign_id' = sid
              /\ out' = r
              /\ pc' = IF r.ok THEN "encoded" ELSE "raised"
              /\ err' = r.err
    /\ UNCHANGED <<rawtx, tx, orig, decodeLocals, verifyVars>>

\* Transaction.import_raw(t.raw()): the bytes of the full mode are decoded.
import_raw ==
    /\ pc = "encoded"
    /\ sign_id = <<>>
    /\ rawtx' = out.bytes
    /\ pc' = "import_raw"
    /\ UNCHANGED <<tx, orig, err, decodeLocals, out, sign_id, verifyVars>>

(* ------------------------- Transaction.verify ------------------------- *)

Event(ev, pos, ok) == [ev |-> ev, pos |-> pos, ok |-> ok]

\* A failed verify_digest logged, the loop going on.
BadSignatureContinues == [stop |-> FALSE, result |-> "False"]

\* Lines 197-199: what a failed verify_digest leads to: [stop, result].
BadSignature == [stop |-> TRUE, result |-> "False"]

\* One pass of the loop of verify, lines 188-200, for the input at position vi.
\* Only vk.verify_digest is inside the try; everything before it raises freely.
verify_input ==
    /\ pc \in {"new", "imported", "verify"}
    /\ vi < Len(tx.inputs)
    /\ LET inp == tx.inputs[vi + 1]
           t_to_sign == raw(tx, <<inp.id>>)
           p == parse_script_sig(inp.script_sig)
           pub_key == IF Len(p.public_key) = 33 THEN public_uncompressed(p.public_key) ELSE p.public_key
       IN  IF ~t_to_sign.ok
           THEN /\ pc' = "raised" /\ err' = t_to_sign.err
                /\ log' = log \o <<Event("raw", vi, FALSE)>>
                /\ UNCHANGED <<vi, result>>
           ELSE IF ~p.ok
           THEN /\ pc' = "raised" /\ err' = p.err
                /\ log' = log \o <<Event("raw", vi, TRUE), Event("parse", vi, FALSE)>>
                /\ UNCHANGED <<vi, result>>
           ELSE IF (Len(p.public_key) = 33 /\ ~KeyOk(p.public_key)) \/ Len(pub_key) # 65
           THEN /\ pc' = "raised" /\ err' = Raise("KeyError", "verify")
                /\ log' = log \o <<Event("raw", vi, TRUE), Event("parse", vi, TRUE)>>
                /\ UNCHANGED <<vi, result>>
           ELSE \E good \in BOOLEAN :
                /\ log' = log \o <<Event("raw", vi, TRUE), Event("parse", vi, TRUE), Event("check", vi, good)>>
                /\ err' = err
                /\ IF good \/ ~BadSignature.stop
                   THEN /\ vi' = vi + 1 /\ pc' = "verify" /\ result' = result
                   ELSE /\ pc' = "verified" /\ result' = BadSignature.result /\ vi' = vi
    /\ UNCHANGED <<rawtx, tx, orig, decodeLocals, out, sign_id>>

\* Line 201: the loop ran to its end.
verify_return ==
    /\ pc \in {"new", "imported", "verify"}
    /\ tx # NoTx
    /\ vi >= Len(tx.inputs)
    /\ result' = "True"
    /\ pc' = "verified"
    /\ UNCHANGED <<rawtx, tx, orig, err, decodeLocals, out, sign_id, vi, log>>

(* ------------------------- the field values --------------------------- *)

\* A previous-transaction hash, here in wire order; a Transaction holds it reversed.
WireHash == [k \in 1..32 |-> IF k \in {1, 15} THEN 0 ELSE IF k = 6 THEN 1 ELSE k]
PrevHash == Rev(WireHash)
OutputIndex == <<0, 0, 0, 1>>
Sequence == <<254, 255, 255, 255>>
Version == <<0, 0, 0, 1>>
Locktime == 1012919

\* script_sig: <push l> <DER signature> <sighash type> <push l2> <public key>
SigCompressed(key) == <<4, 48, 2, key, 1, 33, 2>> \o Rep(key, 32)
SigUncompressed(key) == <<4, 48, 2, key, 1, 65, 4>> \o Rep(key, 32) \o Rep(key + 1, 32)
SigEmpty == <<>>
SigTruncated == <<4, 48>>
SigBadKey == <<4, 48, 2, 9, 1, 2, 7, 7>>
SigBadDer == <<4, 49, 2, 3, 1, 33, 2>> \o Rep(3, 32)
SigLong253 == Rep(0, 253)
SigLong256 == Rep(0, 256)

ScriptSigs == {SigCompressed(1), SigUncompressed(5), SigEmpty, SigTruncated, SigBadKey,
               SigBadDer, SigLong253, SigLong256}

OutputLists == {
    << [amount |-> 77133118, script |-> <<118, 169>>] >>,
    << [amount |-> 77133118, script |-> <<118, 169>>], [amount |-> 890000, script |-> <<>>] >>,
    << [amount |-> 1, script |-> Rep(0, 253)] >> }

\* The ids a caller gives the inputs of a list: their positions, or, leaving
\* Input's id parameter at its default, 0 for each.
ByPosition(k) == k - 1
ByDefault(k) == 0

\* The Transactions constructed directly, Input by Input.
BuiltTxs ==
    { Transaction([k \in 1..n |-> Input(PrevHash, OutputIndex, ss[k], Sequence,
                                         IF byPos THEN ByPosition(k) ELSE ByDefault(k))],
                  outs, Locktime, Version) :
        n \in 0..MaxInputs, ss \in [1..MaxInputs -> ScriptSigs],
        byPos \in BOOLEAN, outs \in OutputLists }

\* The wire format of a transaction, length prefixes as CompactSize integers.
WireInput(script_sig) ==
    WireHash \o Rev(OutputIndex) \o int_to_varbyteint(Len(script_sig)) \o script_sig \o Sequence
WireOutput(outp) ==
    LittleEndian(outp.amount, 8) \o int_to_varbyteint(Len(outp.script)) \o outp.script
RECURSIVE Flat(_)
Flat(ss) == IF ss = <<>> THEN <<>> ELSE ss[1] \o Flat(Tail(ss))
WireTx(script_sigs, outs) ==
    Rev(Version) \o int_to_varbyteint(Len(script_sigs))
    \o Flat([k \in 1..Len(script_sigs) |-> WireInput(script_sigs[k])])
    \o int_to_varbyteint(Len(outs)) \o Flat([k \in 1..Len(outs) |-> WireOutput(outs[k])])
    \o LittleEndian(Locktime, 4)

WireTxs ==
    { WireTx([k \in 1..n |-> SigCompressed(1)], outs) : n \in 0..MaxInputs, outs \in OutputLists \cup {<<>>} }
    \cup { WireTx(<<SigLong253>>, outs) : outs \in OutputLists }

\* What import_raw may be handed: a transaction off the wire, or any part of
\* one up to where the bytes stopped.
WireBuffers == UNION { { SubSeq(w, 1, n) : n \in 0..Len(w) } : w \in WireTxs }

(* --------------------------- the state machine ------------------------ *)

Init ==
    /\ \/ /\ rawtx \in WireBuffers
          /\ tx = NoTx
          /\ pc = "import_raw"
       \/ /\ rawtx = <<>>
          /\ tx \in BuiltTxs
          /\ pc = "new"
    /\ orig = tx
    /\ err = NoErr
    /\ decodeIdle
    /\ out = [ok |-> TRUE, bytes |-> <<>>, err |-> NoErr]
    /\ sign_id = <<>>
    /\ vi = 0 /\ result = "none" /\ log = <<>>

Next ==
    \/ deserialize_header
    \/ deserialize_input
    \/ deserialize_n_outputs
    \/ deserialize_output
    \/ deserialize_return
    \/ raw_call
    \/ import_raw
    \/ verify_input
    \/ verify_return

Spec == Init /\ [][Next]_vars

(* ----------------------------- the properties -------------------------- *)

Range(f) == {f[k] : k \in DOMAIN f}
FormatErrors == {"TransactionError", "FormatError"}
InputReads == {"inp_hash", "inp_index", "scriptsig", "sequence"}

\* t.raw() was called on a constructed Transaction and, if it returned, its
\* bytes went through import_raw to the end.
RoundTripDone ==
    /\ orig # NoTx /\ sign_id = <<>> /\ log = <<>>
    /\ pc \in {"raised", "imported"}

\* Version, locktime, outputs and every input's fields are those of u, the ids
\* are the positions.
SameFields(t, u) ==
    /\ t.version = u.version /\ t.locktime = u.locktime /\ t.outputs = u.outputs
    /\ Len(t.inputs) = Len(u.inputs)
    /\ \A k \in 1..Len(t.inputs) :
          /\ t.inputs[k].prev_hash = u.inputs[k].prev_hash
          /\ t.inputs[k].output_index = u.inputs[k].output_index
          /\ t.inputs[k].script_sig = u.inputs[k].script_sig
          /\ t.inputs[k].sequence = u.inputs[k].sequence
          /\ t.inputs[k].id = k - 1

\* C1: decoding the full-mode bytes of any Transaction built from valid field
\* values gives back its version, locktime, outputs and inputs, ids by position.
RoundTripFull == RoundTripDone => (pc = "imported" /\ SameFields(tx, orig))

\* C2: verify() never raises; a parse failure on an input ends it like a bad
\* signature does.
VerifyNeverRaises == ~(log # <<>> /\ pc = "raised")

\* C3: whenever fewer than 32 bytes are left where an input's hash starts,
\* decoding has failed with the format error and no Transaction came back.
ShortHashRejected ==
    "inp_hash" \in short => (pc = "raised" /\ err.type \in FormatErrors /\ tx = orig)

ShortHashReached ==
    /\ orig = NoTx /\ pc = "raised" /\ "inp_hash" \in short
    /\ err = Raise("FormatError", "scriptsig_size")
    /\ Len(rawtx) - (cursor - 36) \in 1..31

\* C4: when the buffer ends before the last declared input's sequence field is
\* complete, decoding fails with the format error: it is still in the input
\* stage or has raised, and a Transaction that came back holds n_inputs inputs,
\* each read in full.
TruncatedInputRejected ==
    /\ short \cap InputReads # {} =>
          (pc \in {"inputs", "raised"} /\ (pc = "raised" => err.type \in FormatErrors) /\ tx = orig)
    /\ pc = "imported" => Len(tx.inputs) = n_inputs

TruncatedInputReached ==
    /\ orig = NoTx /\ pc = "raised" /\ n_inputs = 2 /\ Len(inputs) = 2
    /\ short = {"scriptsig", "sequence"}
    /\ err = Raise("FormatError", "n_outputs")

\* C5: a Transaction that import_raw returns has as many outputs as the buffer
\* declared, at least one; the "no outputs" error is that of a zero count.
NoEmptyOutputs ==
    /\ pc = "imported" => (n_outputs >= 1 /\ Len(tx.outputs) = n_outputs)
    /\ (pc = "raised" /\ err.at = "outputs") => (err.type = "TransactionError" /\ n_outputs = 0 /\ tx = orig)

ZeroOutputsReached ==
    /\ orig = NoTx /\ pc = "raised" /\ err = Raise("TransactionError", "outputs")
    /\ n_outputs = 0 /\ n_inputs = 1 /\ short = {}

\* C6: decoding never returns a Transaction one of whose fields was read short.
NoPartialTransaction == pc = "imported" => short = {}

\* raw(k) was called on a constructed Transaction all of whose script_sigs
\* hold a public key.
WellFormed(t) ==
    \A k \in 1..Len(t.inputs) :
        /\ parse_script_sig(t.inputs[k].script_sig).ok
        /\ KeyOk(parse_script_sig(t.inputs[k].script_sig).public_key)
PreimageDone ==
    /\ orig # NoTx /\ sign_id # <<>> /\ log = <<>> /\ pc \in {"encoded", "raised"}
    /\ WellFormed(tx)

\* The preimage for the input at position j: the fixed script with the hash of
\* that input's own key there, a lone zero byte for the others.
ExpectedPreimage(t, j) ==
    Rev(t.version) \o int_to_varbyteint(Len(t.inputs))
    \o Flat([k \in 1..Len(t.inputs) |->
               Rev(t.inputs[k].prev_hash) \o Rev(t.inputs[k].output_index)
               \o (IF k = j
                   THEN <<25, 118, 169, 20>>
                        \o hash160(parse_script_sig(t.inputs[k].script_sig).public_key)
                        \o <<136, 172>>
                   ELSE <<0>>)
               \o t.inputs[k].sequence])
    \o int_to_varbyteint(Len(t.outputs))
    \o Flat([k \in 1..Len(t.outputs) |-> RawOutput(t.outputs[k]).bytes])
    \o LittleEndian(t.locktime, 4) \o <<1, 0, 0, 0>>

\* C7: raw(sign_id=k) puts the 26-byte script with the hash160 of its own key
\* on exactly the one input whose id is k, one zero byte on every other input,
\* and 01 00 00 00 after the locktime; all else is as in full mode.
PreimageStructure ==
    PreimageDone =>
        /\ out.ok
        /\ \E j \in 1..Len(tx.inputs) :
              /\ tx.inputs[j].id = sign_id[1]
              /\ out.bytes = ExpectedPreimage(tx, j)

\* C8: verify() checks the inputs in list order, returns True only when every
\* input's signature check passed, and does nothing more once a check failed.
FailFastConjunctive ==
    /\ result = "True" =>
          \A p \in 0..(Len(tx.inputs) - 1) : Event("check", p, TRUE) \in Range(log)
    /\ result = "False" => (log # <<>> /\ log[Len(log)] = Event("check", vi, FALSE))
    /\ \A k \in 1..Len(log) :
          (log[k].ev = "check" /\ ~log[k].ok) =>
              (k = Len(log) /\ result = "False" /\ pc = "verified")
    /\ \A k, m \in 1..Len(log) : k < m => log[k].pos <= log[m].pos
    /\ result # "none" <=> pc = "verified"

FailFastReached ==
    /\ pc = "verified" /\ result = "False" /\ Len(tx.inputs) >= 2 /\ vi = 0
    /\ log = <<Event("raw", 0, TRUE), Event("parse", 0, TRUE), Event("check", 0, FALSE)>>

\* C9: a buffer that declares no inputs gets through the input stage of
\* decoding, and verify() on a Transaction without inputs returns True with no
\* signature checked.
EmptyInputsVerify ==
    /\ (orig = NoTx /\ Len(rawtx) >= 5 /\ rawtx[5] = 0) =>
          err.at \notin {"n_inputs", "inp_hash", "scriptsig_size", "count"}
    /\ (pc = "verified" /\ tx.inputs = <<>>) => (result = "True" /\ log = <<>>)
    /\ (pc = "raised" /\ tx # NoTx /\ tx.inputs = <<>>) => err.at \notin {"verify", "parse_script_sig", "input_addresses"}

EmptyInputsReached ==
    /\ orig = NoTx /\ n_inputs = 0 /\ Len(rawtx) >= 5 /\ rawtx[5] = 0
    /\ pc = "verified" /\ tx.inputs = <<>> /\ result = "True"

\* C10: when the input loop of deserialize_transaction is over, the list holds
\* n_inputs entries, the one at position j with id j; the count-mismatch
\* error is never raised.
InputLoopCount ==
    /\ (pc = "inputs" /\ i >= n_inputs) =>
          (Len(inputs) = n_inputs /\ \A j \in 1..Len(inputs) : inputs[j].id = j - 1)
    /\ err # Raise("TransactionError", "count")

InputLoopReached ==
    /\ pc = "inputs" /\ i >= n_inputs /\ n_inputs >= 2

====
